---- MODULE Spec2Model ----
(***************************************************************************)
(* NetTest (src/nettest/__init__.py): the NetTest probe object, its eight  *)
(* probe methods and run_test(), modelled as a state machine.              *)
(*                                                                         *)
(* Text is a sequence of one-character strings, so that strip(), split()   *)
(* and the substring tests of the code are computed, not assumed.          *)
(* Everything outside the process (sockets, subprocesses, files, the two   *)
(* HTTP endpoints) is an input of the call that uses it, drawn from a      *)
(* small set.                                                              *)
(***************************************************************************)
EXTENDS Integers, Sequences, FiniteSets, TLC

VARIABLES
    PLATFORM_NAME,      \* module global, set once at import (line 25)
    public_ip,          \* self._public_ip, the only cache of the object (line 80)
    defaulttimeout,     \* the socket module's process-wide default timeout
    pc,                 \* "idle", or "run_test" while run_test() evaluates its arguments
    runArgs,            \* the keyword arguments run_test() has evaluated so far
    runLog,             \* the probes run_test() has invoked, in order
    runBlocked,         \* history: every outbound attempt of this run_test() failed
    report,             \* what the last finished run_test() returned
    last,               \* the last probe call: its input, pre-state and return
    returned_ip,        \* history: the first body get_public_ip() fetched and returned
    inspected,          \* the state of the host, where it is drawn before the call
    constructed_at      \* history: the clock when the report was constructed

vars == <<PLATFORM_NAME, public_ip, defaulttimeout, pc, runArgs, runLog, runBlocked,
          report, last, returned_ip, inspected, constructed_at>>

(***************************************************************************)
(* Bounds of the model.                                                    *)
(***************************************************************************)
MaxBodyLen == 2         \* longest body of the IP-echo endpoint
MaxOrgLen == 3          \* longest "org" string of the IP-info endpoint
MaxElapsedTicks == 5    \* longest handshake measured, in ticks
TicksPerMs == 4         \* resolution of the clock: ticks per millisecond

(***************************************************************************)
(* Text.                                                                   *)
(***************************************************************************)
SeqsUpTo(S, n) == UNION {[1..k -> S] : k \in 0..n}

WS == {" ", "\n", "\t"}

RECURSIVE LStrip(_)
LStrip(s) == IF s # <<>> /\ Head(s) \in WS THEN LStrip(Tail(s)) ELSE s

RECURSIVE RStrip(_)
RStrip(s) ==
    IF s # <<>> /\ s[Len(s)] \in WS THEN RStrip(SubSeq(s, 1, Len(s) - 1)) ELSE s

\* str.strip()
Strip(s) == RStrip(LStrip(s))

\* c in s, for a one-character c
HasChar(s, c) == \E i \in 1..Len(s) : s[i] = c

\* w in s
Contains(s, w) == \E i \in 0..(Len(s) - Len(w)) : SubSeq(s, i + 1, i + Len(w)) = w

\* s.startswith(w)
StartsWith(s, w) == Len(s) >= Len(w) /\ SubSeq(s, 1, Len(w)) = w

FirstIndex(s, c) == CHOOSE i \in 1..Len(s) : s[i] = c /\ \A j \in 1..(i - 1) : s[j] # c

\* s.split(c, 1)[1], defined when c is in s
SplitOnceSecond(s, c) == SubSeq(s, FirstIndex(s, c) + 1, Len(s))

\* s.split(c)
RECURSIVE Split(_, _)
Split(s, c) ==
    IF ~HasChar(s, c) THEN <<s>>
    ELSE <<SubSeq(s, 1, FirstIndex(s, c) - 1)>> \o Split(SplitOnceSecond(s, c), c)

(***************************************************************************)
(* Python values: every value a probe returns or a field holds.            *)
(***************************************************************************)
PyNone == [kind |-> "None", b |-> FALSE, n |-> 0, s |-> <<>>, exc |-> ""]
PyBool(x) == [kind |-> "bool", b |-> x, n |-> 0, s |-> <<>>, exc |-> ""]
PyInt(x) == [kind |-> "int", b |-> FALSE, n |-> x, s |-> <<>>, exc |-> ""]
PyStr(x) == [kind |-> "str", b |-> FALSE, n |-> 0, s |-> x, exc |-> ""]
PyInf == [kind |-> "inf", b |-> FALSE, n |-> 0, s |-> <<>>, exc |-> ""]
\* not a value: the call raised exception class x
Raised(x) == [kind |-> "raise", b |-> FALSE, n |-> 0, s |-> <<>>, exc |-> x]

\* bool(v), as "if v:" evaluates it
Truthy(v) ==
    CASE v.kind = "None" -> FALSE
      [] v.kind = "bool" -> v.b
      [] v.kind = "int" -> v.n # 0
      [] v.kind = "str" -> v.s # <<>>
      [] OTHER -> TRUE

NA == PyStr(<<"n", "/", "a">>)
Unknown == PyStr(<<"U", "n", "k", "n", "o", "w", "n">>)
WiFi == PyStr(<<"W", "i", "-", "F", "i">>)
Ethernet == PyStr(<<"E", "t", "h", "e", "r", "n", "e", "t">>)

(***************************************************************************)
(* Module globals (lines 12-26) and class attributes.                      *)
(***************************************************************************)
\* the names the import statements of the module bind (lines 12-20)
ModuleGlobals ==
    {"sys", "time", "socket", "platform", "requests", "datetime", "subprocess",
     "Any", "Optional", "dataclass"}

\* the methods class NetTest defines (lines 71-443; 405-411 are comments)
NetTestMethods ==
    {"__init__", "is_connected", "get_gateway_ip", "get_machine_ip",
     "get_interface_type", "measure_network_latency", "measure_internet_ping",
     "get_public_ip", "get_isp_name", "run_test", "__str__"}

PlatformText ==
    [
     P_Linux |-> <<"L", "i", "n", "u", "x", "-", "6", ".", "1">>,
     P_Windows |-> <<"W", "i", "n", "d", "o", "w", "s", "-", "1", "0">>,
     P_Darwin |-> <<"D", "a", "r", "w", "i", "n", "-", "1", "9">>,
     W_Linux |-> <<"L", "i", "n", "u", "x">>,
     W_Windows |-> <<"W", "i", "n", "d", "o", "w", "s">>,
     W_Darwin |-> <<"D", "a", "r", "w", "i", "n">>,
     W_darwin |-> <<"d", "a", "r", "w", "i", "n">>
    ]

\* what platform.platform(terse=True) can return
Platforms == {PlatformText.P_Linux, PlatformText.P_Windows, PlatformText.P_Darwin}


\* the time the module was imported: TestResult.timestamp's default is
\* evaluated once, when the class body runs (line 44)
ImportTime == 0

MaxInstant == 2         \* the last instant of the clock

\* what the clock can show once the module is imported
Instants == ImportTime..MaxInstant

(***************************************************************************)
(* What a probe call does: its return value (or the exception it raises),  *)
(* the cache and the default socket timeout after it, and the number of    *)
(* HTTP GETs it issued.                                                    *)
(***************************************************************************)
Outcome(ret, cache, dt, gets) ==
    [ret |-> ret, cache |-> cache, dt |-> dt, gets |-> gets]

(***************************************************************************)
(* Connectivity check (lines 82-106).                                      *)
(***************************************************************************)
\* timeout: float = 3.0 (line 82)
DefaultTimeout == 3
Timeouts == {-1, DefaultTimeout}

ConnectEnv ==
    [timeout : Timeouts, connect : {"ok", "refused", "timeout"}]

is_connected(cache, dt, env) ==
    IF env.timeout < 0
    THEN \* setdefaulttimeout raises ValueError, caught at line 100
         Outcome(PyBool(FALSE), cache, dt, 0)
    ELSE Outcome(PyBool(env.connect = "ok"), cache, PyInt(env.timeout), 0)

(***************************************************************************)
(* Latency sampler (lines 319-337).                                        *)
(***************************************************************************)
\* whether the network can be reached while the call runs; the call does not look
LatencyEnv == [reachable : BOOLEAN]

measure_network_latency(cache, dt, env) == Outcome(PyInt(1), cache, dt, 0)

PingEnv ==
    [kind : {"ok"}, ticks : 0..MaxElapsedTicks]
        \cup [kind : {"timeout", "refused"}, ticks : {0}]

\* the failure is reported as a duration of zero
measure_internet_ping_zero_on_failure(cache, dt, env) ==
    IF env.kind = "ok"
    THEN Outcome(PyInt(env.ticks \div TicksPerMs), cache, dt, 0)
    ELSE Outcome(PyInt(0), cache, dt, 0)

measure_internet_ping(cache, dt, env) ==
    IF env.kind = "ok"
    THEN \* int((end - start) * 1000)
         Outcome(PyInt(env.ticks \div TicksPerMs), cache, dt, 0)
    ELSE Outcome(PyInt(-1), cache, dt, 0)

(***************************************************************************)
(* Public identity resolver (lines 339-403).                               *)
(***************************************************************************)
ScenarioText ==
    [
     ScenarioIp |-> <<"2", "0", "3", ".", "0", ".", "1", "1", "3", ".", "7">>,
     ScenarioOrg |-> <<"A", "S", "3", "6", "9", "4", "7", " ", "T", "e", "l",
         "e", "c", "o", "m", " ", "A", "l", "g", "e", "r", "i", "a">>,
     TelecomAlgeria |-> <<"T", "e", "l", "e", "c", "o", "m", " ", "A", "l",
         "g", "e", "r", "i", "a">>
    ]

BodyAlphabet == {" ", "7"}
Bodies == SeqsUpTo(BodyAlphabet, MaxBodyLen) \cup {ScenarioText.ScenarioIp}

\* what GET https://api.ipify.org can do
PublicIpEnv ==
    [kind : {"transport_error", "http_error"}, body : {<<>>}]
        \cup [kind : {"ok"}, body : Bodies]

\* the sentinel of a failed request is cached
get_public_ip_caches_failure(cache, dt, env) ==
    IF Truthy(cache)
    THEN Outcome(cache, cache, dt, 0)
    ELSE IF env.kind = "ok"
         THEN LET ip == PyStr(Strip(env.body))
              IN  Outcome(ip, ip, dt, 1)
         ELSE Outcome(NA, NA, dt, 1)

get_public_ip(cache, dt, env) ==
    IF Truthy(cache)
    THEN Outcome(cache, cache, dt, 0)
    ELSE IF env.kind = "ok"
         THEN LET ip == PyStr(Strip(env.body))
              IN  Outcome(ip, ip, dt, 1)
         ELSE Outcome(NA, cache, dt, 1)

OrgAlphabet == {" ", "A"}
Orgs == SeqsUpTo(OrgAlphabet, MaxOrgLen) \cup {ScenarioText.ScenarioOrg}

\* data.get("org"): None when the key is missing, a string, or another JSON value
OrgValues == {PyNone, PyInt(1)} \cup {PyStr(o) : o \in Orgs}
\* data.get("ip")
IpValues == {PyNone, PyStr(<<>>), PyStr(<<"9">>)}

\* what GET https://ipinfo.io/json can do
IspEnv ==
    [kind : {"transport_error", "http_error", "not_json", "not_object"},
     org : {PyNone}, ip : {PyNone}]
        \cup [kind : {"object"}, org : OrgValues, ip : IpValues]

\* the "org" field is returned whole
get_isp_name_keeps_asn(cache, dt, env) ==
    IF env.kind \in {"transport_error", "http_error", "not_json"}
    THEN Outcome(NA, cache, dt, 1)
    ELSE IF env.kind = "not_object"
    THEN Outcome(Raised("AttributeError"), cache, dt, 1)
    ELSE LET cache1 == IF ~Truthy(cache) /\ Truthy(env.ip) THEN env.ip ELSE cache
         IN  IF Truthy(env.org)
             THEN IF env.org.kind # "str"
                  THEN Outcome(Raised("TypeError"), cache1, dt, 1)
                  ELSE Outcome(env.org, cache1, dt, 1)
             ELSE Outcome(NA, cache1, dt, 1)

get_isp_name(cache, dt, env) ==
    IF env.kind \in {"transport_error", "http_error", "not_json"}
    THEN \* RequestException (requests' JSONDecodeError is one), line 399
         Outcome(NA, cache, dt, 1)
    ELSE IF env.kind = "not_object"
    THEN \* data.get on a list, string or number (line 384)
         Outcome(Raised("AttributeError"), cache, dt, 1)
    ELSE LET org == env.org
             ip == env.ip
             cache1 == IF ~Truthy(cache) /\ Truthy(ip) THEN ip ELSE cache
         IN  IF Truthy(org)
             THEN IF org.kind # "str"
                  THEN \* " " in org (line 395)
                       Outcome(Raised("TypeError"), cache1, dt, 1)
                  ELSE IF HasChar(org.s, " ")
                       THEN Outcome(PyStr(SplitOnceSecond(org.s, " ")), cache1, dt, 1)
                       ELSE Outcome(org, cache1, dt, 1)
             ELSE Outcome(NA, cache1, dt, 1)

(***************************************************************************)
(* Local network inspector: interface type (lines 254-317).                *)
(***************************************************************************)
\* the first place of w in s, when w is in s
FirstPos(s, w) ==
    CHOOSE i \in 1..(Len(s) - Len(w) + 1) :
        /\ SubSeq(s, i, i + Len(w) - 1) = w
        /\ \A j \in 1..(i - 1) : SubSeq(s, j, j + Len(w) - 1) # w

\* s.split(w)[1], when w is in s
SplitSecond(s, w) ==
    LET rest == SubSeq(s, FirstPos(s, w) + Len(w), Len(s))
    IN  IF Contains(rest, w) THEN SubSeq(rest, 1, FirstPos(rest, w) - 1) ELSE rest

RECURSIVE JoinLines(_)
JoinLines(lines) ==
    IF lines = <<>> THEN <<>>
    ELSE IF Len(lines) = 1 THEN lines[1]
    ELSE lines[1] \o <<"\n">> \o JoinLines(Tail(lines))

WordChars ==
    {"a", "b", "c", "d", "e", "f", "g", "h", "i", "j", "k", "l", "m", "n", "o",
     "p", "q", "r", "s", "t", "u", "v", "w", "x", "y", "z", "A", "B", "C", "D",
     "E", "F", "G", "H", "I", "J", "K", "L", "M", "N", "O", "P", "Q", "R", "S",
     "T", "U", "V", "W", "X", "Y", "Z", "0", "1", "2", "3", "4", "5", "6", "7",
     "8", "9", "_"}

\* the words the code looks for (W_), and lines of "netsh interface show
\* interface" (N_), of "ip route show default" (R_) and of "networksetup
\* -listallhardwareports" (D_)
IfaceText ==
    [
     W_dev |-> <<"d", "e", "v">>,
     W_Connected |-> <<"C", "o", "n", "n", "e", "c", "t", "e", "d">>,
     W_WiFi |-> <<"W", "i", "-", "F", "i">>,
     W_Ethernet |-> <<"E", "t", "h", "e", "r", "n", "e", "t">>,
     W_Device |-> <<"D", "e", "v", "i", "c", "e", ":", " ">>,
     W_colon |-> <<":", " ">>,
     W_en |-> <<"e", "n">>,
     W_AirPort |-> <<"A", "i", "r", "P", "o", "r", "t">>,
     N_Connected_WiFi |-> <<"C", "o", "n", "n", "e", "c", "t", "e", "d", " ",
         "W", "i", "-", "F", "i">>,
     N_Connected_Ethernet |-> <<"C", "o", "n", "n", "e", "c", "t", "e", "d",
         " ", "E", "t", "h", "e", "r", "n", "e", "t">>,
     N_Disconnected_WiFi |-> <<"D", "i", "s", "c", "o", "n", "n", "e", "c",
         "t", "e", "d", " ", "W", "i", "-", "F", "i">>,
     N_Connected_Loopback |-> <<"C", "o", "n", "n", "e", "c", "t", "e", "d",
         " ", "L", "o", "o", "p">>,
     R_default_wlan0 |-> <<"d", "e", "f", "a", "u", "l", "t", " ", "d", "e",
         "v", " ", "w", "l", "a", "n", "0">>,
     R_default_nodev |-> <<"d", "e", "f", "a", "u", "l", "t">>,
     D_port_wifi |-> <<"P", "o", "r", "t", ":", " ", "W", "i", "-", "F", "i">>,
     D_port_airport |-> <<"P", "o", "r", "t", ":", " ", "A", "i", "r", "P",
         "o", "r", "t">>,
     D_device_en0 |-> <<"D", "e", "v", "i", "c", "e", ":", " ", "e", "n",
         "0">>,
     D_device_lo0 |-> <<"D", "e", "v", "i", "c", "e", ":", " ", "l", "o",
         "0">>
    ]

\* the index of the first character of group 1 at a match of dev\s+(\w+) that
\* starts at i, or 0
DevMatchAt(s, i) ==
    IF i + 3 > Len(s) \/ SubSeq(s, i, i + 2) # IfaceText.W_dev \/ s[i + 3] \notin WS THEN 0
    ELSE LET k == CHOOSE k \in (i + 3)..(Len(s) + 1) :
                      /\ \A j \in (i + 3)..(k - 1) : s[j] \in WS
                      /\ (k = Len(s) + 1 \/ s[k] \notin WS)
         IN  IF k <= Len(s) /\ s[k] \in WordChars THEN k ELSE 0

\* re.search(r'dev\s+(\w+)', s).group(1), or the empty text for no match
ReSearchDev(s) ==
    IF \A i \in 1..Len(s) : DevMatchAt(s, i) = 0 THEN <<>>
    ELSE LET i == CHOOSE i \in 1..Len(s) :
                      DevMatchAt(s, i) # 0 /\ \A j \in 1..(i - 1) : DevMatchAt(s, j) = 0
             k == DevMatchAt(s, i)
             e == CHOOSE e \in k..Len(s) :
                      /\ \A j \in k..e : s[j] \in WordChars
                      /\ (e = Len(s) \/ s[e + 1] \notin WordChars)
         IN  SubSeq(s, k, e)



MaxLines == 2           \* most lines of a command's output

IfaceLines(p) ==
    IF Contains(p, PlatformText.W_Windows)
    THEN {IfaceText.N_Connected_WiFi, IfaceText.N_Connected_Ethernet, IfaceText.N_Disconnected_WiFi,
          IfaceText.N_Connected_Loopback}
    ELSE IF Contains(p, PlatformText.W_Linux) THEN {IfaceText.R_default_wlan0, IfaceText.R_default_nodev}
    ELSE IF Contains(p, PlatformText.W_Darwin)
    THEN {IfaceText.D_port_wifi, IfaceText.D_port_airport, IfaceText.D_device_en0, IfaceText.D_device_lo0}
    ELSE {}

\* the command (missing, failing, or printing lines) and whether
\* /sys/class/net/<interface>/wireless exists
IfaceEnv(p) ==
    [cmd : {"missing", "failed"}, lines : {<<>>}, wireless : {FALSE}]
        \cup [cmd : {"ok"}, lines : SeqsUpTo(IfaceLines(p), MaxLines),
              wireless : IF Contains(p, PlatformText.W_Linux) THEN BOOLEAN ELSE {FALSE}]

\* the loop of lines 270-276
RECURSIVE NetshScan(_)
NetshScan(lines) ==
    IF lines = <<>> THEN Unknown
    ELSE IF Contains(Head(lines), IfaceText.W_Connected) /\ Contains(Head(lines), IfaceText.W_WiFi)
    THEN WiFi
    ELSE IF Contains(Head(lines), IfaceText.W_Connected) /\ Contains(Head(lines), IfaceText.W_Ethernet)
    THEN Ethernet
    ELSE NetshScan(Tail(lines))

\* the loop of lines 304-311
RECURSIVE HardwarePortScan(_, _)
HardwarePortScan(lines, stdout) ==
    IF lines = <<>> THEN Unknown
    ELSE IF /\ Contains(Head(lines), IfaceText.W_Device)
            /\ Contains(Strip(SplitSecond(Head(lines), IfaceText.W_colon)), IfaceText.W_en)
    THEN IF Contains(stdout, IfaceText.W_AirPort) THEN WiFi ELSE Ethernet
    ELSE HardwarePortScan(Tail(lines), stdout)

\* a command that fails is reported as the empty string
get_interface_type_empty_on_failure(p, env) ==
    IF env.cmd # "ok" THEN PyStr(<<>>)
    ELSE IF Contains(p, PlatformText.W_Windows) THEN NetshScan(env.lines)
    ELSE IF Contains(p, PlatformText.W_Darwin)
    THEN HardwarePortScan(env.lines, JoinLines(env.lines))
    ELSE Unknown

get_interface_type(p, env) ==
    IF Contains(p, PlatformText.W_Windows)
    THEN IF env.cmd # "ok" THEN Unknown ELSE NetshScan(env.lines)
    ELSE IF Contains(p, PlatformText.W_Linux)
    THEN IF env.cmd # "ok" THEN Unknown
         ELSE IF "re" \notin ModuleGlobals
         THEN \* NameError at line 286, caught at line 316
              Unknown
         ELSE IF ReSearchDev(JoinLines(env.lines)) = <<>> THEN Unknown
         ELSE IF "os" \notin ModuleGlobals
         THEN \* NameError at line 292, caught at line 316
              Unknown
         ELSE IF env.wireless THEN WiFi ELSE Ethernet
    ELSE IF Contains(p, PlatformText.W_Darwin)
    THEN IF env.cmd # "ok" THEN Unknown
         ELSE HardwarePortScan(env.lines, JoinLines(env.lines))
    ELSE Unknown


(***************************************************************************)
(* Local network inspector: gateway (lines 108-185).                       *)
(*                                                                         *)
(* A stage of a fallback chain ends in one of three ways: it returns a     *)
(* value, it raises, or it hands over to the next stage.                   *)
(***************************************************************************)
Return(v) == [kind |-> "return", val |-> v]
Raise(x) == [kind |-> "raise", val |-> Raised(x)]
Fallthrough == [kind |-> "next", val |-> PyNone]

GatewayText ==
    [
     IP_loopback |-> <<"1", "2", "7", ".", "0", ".", "0", ".", "1">>,
     IP_lan |-> <<"1", "9", "2", ".", "1", "6", "8", ".", "1", ".", "5">>,
     IP_gw |-> <<"1", "9", "2", ".", "1", "6", "8", ".", "1", ".", "1">>,
     H_zero |-> <<"0", "0", "0", "0", "0", "0", "0", "0">>,
     H_gw |-> <<"0", "1", "0", "1", "A", "8", "C", "0">>,
     H_net |-> <<"0", "0", "0", "1", "A", "8", "C", "0">>,
     H_bad |-> <<"0", "1", "G", "1", "A", "8", "C", "0">>,
     W_eth0 |-> <<"e", "t", "h", "0">>,
     W_via |-> <<"v", "i", "a">>,
     W_default |-> <<"d", "e", "f", "a", "u", "l", "t">>,
     W_deviant |-> <<"d", "e", "v", "i", "a", "n", "t">>,
     W_any |-> <<"0", ".", "0", ".", "0", ".", "0">>,
     W_onlink |-> <<"O", "n", "-", "l", "i", "n", "k">>,
     W_gateway |-> <<"g", "a", "t", "e", "w", "a", "y", ":">>
    ]

HexDigits == <<"0", "1", "2", "3", "4", "5", "6", "7", "8", "9", "A", "B", "C", "D", "E", "F">>
HexLower == <<"0", "1", "2", "3", "4", "5", "6", "7", "8", "9", "a", "b", "c", "d", "e", "f">>

IsHex(s) ==
    /\ s # <<>>
    /\ \A i \in 1..Len(s) : \E d \in 1..Len(HexDigits) : s[i] \in {HexDigits[d], HexLower[d]}

HexVal(c) == (CHOOSE d \in 1..Len(HexDigits) : c \in {HexDigits[d], HexLower[d]}) - 1

\* int(s, 16)
RECURSIVE HexToInt(_)
HexToInt(s) ==
    IF s = <<>> THEN 0
    ELSE HexToInt(SubSeq(s, 1, Len(s) - 1)) * Len(HexDigits) + HexVal(s[Len(s)])

\* str(n) for n >= 0
RECURSIVE DecText(_)
DecText(n) ==
    IF n < 10 THEN <<HexDigits[n + 1]>>
    ELSE DecText(n \div 10) \o <<HexDigits[(n % 10) + 1]>>

\* socket.inet_ntoa(struct.pack('<I', n)), for n < 2^32
InetNtoaLE(n) ==
    DecText(n % 256) \o <<".">> \o DecText((n \div 256) % 256) \o <<".">>
        \o DecText((n \div 65536) % 256) \o <<".">> \o DecText((n \div 16777216) % 256)

\* the lines of /proc/net/route after its header, each as line.split()
RouteLines ==
    {<<GatewayText.W_eth0, GatewayText.H_zero, GatewayText.H_gw>>, <<GatewayText.W_eth0, GatewayText.H_zero, GatewayText.H_zero>>, <<GatewayText.W_eth0, GatewayText.H_net, GatewayText.H_zero>>,
     <<GatewayText.W_eth0, GatewayText.H_zero, GatewayText.H_bad>>}

RouteFiles ==
    [kind : {"unreadable", "empty"}, lines : {<<>>}]
        \cup [kind : {"ok"}, lines : SeqsUpTo(RouteLines, MaxLines)]

\* the loop of lines 123-130: what the body of the inner try does
RECURSIVE RouteScan(_)
RouteScan(lines) ==
    IF lines = <<>> THEN Fallthrough
    ELSE LET fields == Head(lines)
         IN  IF Len(fields) > 2 /\ fields[2] = GatewayText.H_zero /\ fields[3] # GatewayText.H_zero
             THEN IF ~IsHex(fields[3]) THEN Raise("ValueError")
                  ELSE IF "struct" \notin ModuleGlobals THEN Raise("NameError")
                  ELSE IF Len(fields[3]) > 8 THEN Raise("struct.error")
                  ELSE Return(PyStr(InetNtoaLE(HexToInt(fields[3]))))
             ELSE RouteScan(Tail(lines))

\* lines 120-132: the inner try and its except clause
RouteStage(route) ==
    LET body == IF route.kind = "unreadable" THEN Raise("IOError")
                ELSE IF route.kind = "empty" THEN Raise("StopIteration")
                ELSE RouteScan(route.lines)
    IN  IF body.kind # "raise" THEN body
        ELSE IF "struct" \notin ModuleGlobals
        THEN \* the except clause names struct.error: evaluating it raises
             Raise("NameError")
        ELSE IF body.val.exc \in {"IOError", "ValueError", "struct.error"}
        THEN Fallthrough
        ELSE body

\* a line contains w: w holds no blank, so it lies inside one field
LineHas(parts, w) == \E i \in 1..Len(parts) : Contains(parts[i], w)

RECURSIVE JoinTokens(_)
JoinTokens(parts) ==
    IF parts = <<>> THEN <<>>
    ELSE IF Len(parts) = 1 THEN parts[1]
    ELSE parts[1] \o <<" ">> \o JoinTokens(Tail(parts))

\* the lines a routing command prints, each as line.split()
GatewayCmdLines(p) ==
    IF Contains(p, PlatformText.W_Linux)
    THEN {<<GatewayText.W_default, GatewayText.W_via, GatewayText.IP_gw, IfaceText.W_dev, GatewayText.W_eth0>>, <<GatewayText.W_default, IfaceText.W_dev, GatewayText.W_eth0>>,
          <<GatewayText.W_default, GatewayText.W_deviant>>, <<GatewayText.W_default, GatewayText.W_via>>}
    ELSE IF Contains(p, PlatformText.W_Windows)
    THEN {<<GatewayText.W_any, GatewayText.W_any, GatewayText.IP_gw, GatewayText.IP_lan>>, <<GatewayText.W_any, GatewayText.W_any, GatewayText.W_onlink, GatewayText.IP_lan>>,
          <<GatewayText.W_default, GatewayText.W_any>>}
    ELSE IF Contains(p, PlatformText.W_darwin)
    THEN {<<GatewayText.W_gateway, GatewayText.IP_gw>>, <<GatewayText.W_default, GatewayText.W_eth0>>}
    ELSE {}

GatewayCmds(p) ==
    [kind : {"missing", "timeout"}, lines : {<<>>}]
        \cup [kind : {"ok"}, lines : SeqsUpTo(GatewayCmdLines(p), MaxLines)]

\* the loop of lines 138-143
RECURSIVE IpRouteScan(_)
IpRouteScan(lines) ==
    IF lines = <<>> THEN Fallthrough
    ELSE LET parts == Head(lines)
             found == \E i \in 1..Len(parts) : parts[i] = GatewayText.W_via
             via_idx == CHOOSE i \in 1..Len(parts) :
                            parts[i] = GatewayText.W_via /\ \A j \in 1..(i - 1) : parts[j] # GatewayText.W_via
         IN  IF LineHas(parts, GatewayText.W_via) /\ found /\ via_idx + 1 <= Len(parts)
             THEN Return(PyStr(parts[via_idx + 1]))
             ELSE IpRouteScan(Tail(lines))

\* the loop of lines 150-156
RECURSIVE RoutePrintScan(_)
RoutePrintScan(lines) ==
    IF lines = <<>> THEN Fallthrough
    ELSE LET parts == Head(lines)
         IN  IF /\ LineHas(parts, GatewayText.W_any)
                /\ Len(parts) >= 3 /\ parts[1] = GatewayText.W_any /\ parts[2] = GatewayText.W_any
                /\ parts[3] # GatewayText.W_onlink
             THEN Return(PyStr(parts[3]))
             ELSE RoutePrintScan(Tail(lines))

\* the loop of lines 162-165
RECURSIVE RouteGetScan(_)
RouteGetScan(lines) ==
    IF lines = <<>> THEN Fallthrough
    ELSE LET line == Strip(JoinTokens(Head(lines)))
         IN  IF StartsWith(line, GatewayText.W_gateway)
             THEN Return(PyStr(Strip(SplitSecond(line, <<":">>))))
             ELSE RouteGetScan(Tail(lines))

\* lines 135-165: the routing command of the platform; a missing binary and a
\* timeout are caught at line 167
CommandStage(p, cmd) ==
    IF cmd.kind # "ok" THEN Fallthrough
    ELSE IF Contains(p, PlatformText.W_Linux) THEN IpRouteScan(cmd.lines)
    ELSE IF Contains(p, PlatformText.W_Windows) THEN RoutePrintScan(cmd.lines)
    ELSE IF Contains(p, PlatformText.W_darwin) THEN RouteGetScan(cmd.lines)
    ELSE Fallthrough

LocalSockets == [kind : {"error"}, ip : {<<>>}] \cup [kind : {"ok"}, ip : {GatewayText.IP_lan}]

\* lines 171-185: the gateway derived from the local address
HeuristicStage(sock) ==
    IF sock.kind # "ok" THEN Return(NA)
    ELSE LET parts == Split(sock.ip, ".")
         IN  IF Len(parts) = 4
             THEN Return(PyStr(parts[1] \o <<".">> \o parts[2] \o <<".">> \o parts[3]
                                   \o <<".", "1">>))
             ELSE Return(NA)

\* an input the call does not read
Unread == [kind |-> "unread", lines |-> <<>>]
UnreadSocket == [kind |-> "unread", ip |-> <<>>]

ReadsRoute(p) == Contains(p, PlatformText.W_Linux)
ReadsCommand(p, e) ==
    \/ Contains(p, PlatformText.W_Linux) /\ RouteStage(e.route).kind = "next"
    \/ ~Contains(p, PlatformText.W_Linux) /\ (Contains(p, PlatformText.W_Windows) \/ Contains(p, PlatformText.W_darwin))
ReadsSocket(p, e) ==
    /\ ReadsRoute(p) => RouteStage(e.route).kind = "next"
    /\ ReadsCommand(p, e) => CommandStage(p, e.cmd).kind = "next"

\* the routing table, the routing command and the UDP socket, each left
\* unread where the call does not get to it
GatewayEnv(p) ==
    {e \in [route : RouteFiles \cup {Unread}, cmd : GatewayCmds(p) \cup {Unread},
            sock : LocalSockets \cup {UnreadSocket}] :
        /\ (e.route = Unread) <=> ~ReadsRoute(p)
        /\ (e.cmd = Unread) <=> ~ReadsCommand(p, e)
        /\ (e.sock = UnreadSocket) <=> ~ReadsSocket(p, e)}

get_gateway_ip(p, env) ==
    LET s1 == IF Contains(p, PlatformText.W_Linux) THEN RouteStage(env.route) ELSE Fallthrough
        s2 == IF s1.kind # "next" THEN s1 ELSE CommandStage(p, env.cmd)
        s3 == IF s2.kind # "next" THEN s2 ELSE HeuristicStage(env.sock)
    IN  s3.val


(***************************************************************************)
(* Local network inspector: machine IP (lines 187-252).                    *)
(***************************************************************************)
MachineText ==
    [
     W_127 |-> <<"1", "2", "7", ".">>,
     W_169 |-> <<"1", "6", "9", ".", "2", "5", "4", ".">>,
     IP_linklocal |-> <<"1", "6", "9", ".", "2", "5", "4", ".", "1", ".",
         "2">>,
     IP_v6 |-> <<"f", "e", "8", "0", ":", ":", "1">>
    ]

\* ip and not ip.startswith(('127.', '169.254.'))
Usable(ip) == ip # <<>> /\ ~StartsWith(ip, MachineText.W_127) /\ ~StartsWith(ip, MachineText.W_169)

\* s.connect((host, 80)) and s.getsockname()[0], for one host
HostOutcomes ==
    [kind : {"error"}, ip : {<<>>}] \cup [kind : {"ok"}, ip : {GatewayText.IP_loopback, GatewayText.IP_lan}]

\* the three hosts of line 202
Hosts == 1..3

\* the addresses one command prints, in order: the tokens of hostname -I,
\* the regex matches of ifconfig and ip addr, the IPv4 lines of ipconfig
AddressLists == {<<GatewayText.IP_loopback>>, <<MachineText.IP_linklocal, GatewayText.IP_lan>>, <<MachineText.IP_v6>>}

CommandOutcomes ==
    [kind : {"missing", "oserror"}, ips : {<<>>}]
        \cup [kind : {"ok"}, ips : AddressLists]

UnreadCommand == [kind |-> "unread", ips |-> <<>>]

\* the commands of line 228; on Windows the one command of line 219
NumCommands(p) == IF Contains(p, PlatformText.W_Windows) THEN 1 ELSE 3
Commands(p) == 1..NumCommands(p)

\* lines 199-211: the UDP socket, connected to each host in turn
RECURSIVE SocketScan(_)
SocketScan(hosts) ==
    IF hosts = <<>> THEN Fallthrough
    ELSE IF Head(hosts).kind = "ok" /\ Usable(Head(hosts).ip)
    THEN Return(PyStr(Head(hosts).ip))
    ELSE SocketScan(Tail(hosts))

SocketStage(env) == IF env.sock # "ok" THEN Fallthrough ELSE SocketScan(env.hosts)

RECURSIVE FirstUsable(_)
FirstUsable(ips) ==
    IF ips = <<>> THEN Fallthrough
    ELSE IF Usable(Head(ips)) THEN Return(PyStr(Head(ips)))
    ELSE FirstUsable(Tail(ips))

\* one command of lines 218-247: a value returned, the next command tried
\* (line 247), or an exception for the except clause of line 249
CommandStep(p, out) ==
    IF out.kind = "ok" THEN FirstUsable(out.ips)
    ELSE IF out.kind = "oserror" THEN Raise("OSError")
    ELSE IF Contains(p, PlatformText.W_Windows) THEN Raise("SubprocessError")
    ELSE Fallthrough

RECURSIVE SystemCommands(_, _)
SystemCommands(p, cmds) ==
    IF cmds = <<>> THEN Fallthrough
    ELSE LET step == CommandStep(p, Head(cmds))
         IN  IF step.kind = "next" THEN SystemCommands(p, Tail(cmds)) ELSE step

\* lines 214-250: every exception ends the stage without a value
SystemStage(p, env) ==
    LET step == SystemCommands(p, SubSeq(env.cmds, 1, NumCommands(p)))
    IN  IF step.kind = "raise" THEN Fallthrough ELSE step

ReadsCommandAt(p, e, i) ==
    /\ i \in Commands(p)
    /\ SocketStage(e).kind = "next"
    /\ \A j \in 1..(i - 1) : CommandStep(p, e.cmds[j]).kind = "next"

MachineEnv(p) ==
    {e \in [sock : {"error", "ok"}, hosts : [Hosts -> HostOutcomes],
            cmds : [1..3 -> CommandOutcomes \cup {UnreadCommand}]] :
        /\ e.sock = "error" => \A h \in Hosts : e.hosts[h].kind = "error"
        /\ \A i \in 1..3 : (e.cmds[i] = UnreadCommand) <=> ~ReadsCommandAt(p, e, i)}

get_machine_ip(p, env) ==
    LET s1 == SocketStage(env)
        s2 == IF s1.kind # "next" THEN s1 ELSE SystemStage(p, env)
    IN  IF s2.kind = "return" THEN s2.val ELSE NA


(***************************************************************************)
(* The report (lines 29-44) and run_test (lines 413-440).                  *)
(***************************************************************************)
\* TestResult(...): the fields not named keep the defaults of lines 32-44
TestResult(named) ==
    [f \in {"success", "internet_connected", "interface_type", "gateway_ip",
            "machine_ip", "network_latency", "internet_ping", "public_ip", "isp",
            "bandwidth_down_mbps", "bandwidth_up_mbps", "timestamp"} |->
        IF f \in DOMAIN named THEN named[f]
        ELSE IF f \in {"success", "internet_connected"} THEN PyBool(FALSE)
        ELSE IF f = "timestamp" THEN PyInt(ImportTime)
        ELSE PyNone]

\* no report: run_test() has not returned since the last call
NoReport == [returned |-> FALSE]

\* the probes in the order the keyword arguments of lines 419-427 are evaluated
RunOrder ==
    <<"is_connected", "get_interface_type", "get_gateway_ip", "get_machine_ip",
      "measure_network_latency", "measure_internet_ping", "get_public_ip",
      "get_isp_name">>

\* the field each of them fills
RunField ==
    <<"internet_connected", "interface_type", "gateway_ip", "machine_ip",
      "network_latency", "internet_ping", "public_ip", "isp">>

\* the except clause reports what the try block had evaluated
FailureReportKeepsArgs(args) ==
    TestResult([f \in {"success"} \cup {RunField[i] : i \in 1..Len(args)} |->
                   IF f = "success" THEN PyBool(FALSE)
                   ELSE args[CHOOSE i \in 1..Len(args) : RunField[i] = f]])

\* lines 438-440: the report of the except clause
FailureReport(args) == TestResult([success |-> PyBool(FALSE)])

\* lines 417-430: the report of the try block, once lines 419-427 are evaluated
SuccessReport(args) ==
    IF {"measure_down_bandwidth", "measure_up_bandwidth"} \subseteq NetTestMethods
    THEN TestResult([f \in {"success"} \cup {RunField[i] : i \in 1..Len(args)} |->
                        IF f = "success" THEN PyBool(TRUE)
                        ELSE args[CHOOSE i \in 1..Len(args) : RunField[i] = f]])
    ELSE \* AttributeError at line 428, caught at line 432
         FailureReport(args)

(***************************************************************************)
(* Calls.                                                                  *)
(*                                                                         *)
(* An effect is what one call does under one input: the outcome of the     *)
(* probe, whether every outbound connection and request of the call        *)
(* failed, and what the trace keeps of the input.                          *)
(***************************************************************************)
Effect(o, blocked, seen) ==
    [ret |-> o.ret, cache |-> o.cache, dt |-> o.dt, gets |-> o.gets,
     blocked |-> blocked, seen |-> seen]

\* the local inspector reads and writes nothing of the object: its calls are
\* kept as what they return
LocalInput == [kind |-> "local"]

\* the host is not drawn in advance: each call draws what it reads
NotDrawn == [op |-> "none", env |-> LocalInput]

InterfaceTypeResults ==
    [p \in Platforms |->
        {[ret |-> get_interface_type(p, e), blocked |-> TRUE] : e \in IfaceEnv(p)}]
GatewayIpResults ==
    [p \in Platforms |->
        {[ret |-> get_gateway_ip(p, e), blocked |-> e.sock.kind # "ok"] :
            e \in GatewayEnv(p)}]
MachineIpResults ==
    [p \in Platforms |->
        {[ret |-> get_machine_ip(p, e),
          blocked |-> \A h \in Hosts : e.hosts[h].kind = "error"] :
            e \in MachineEnv(p)}]

LocalResults(op, p) ==
    CASE op = "get_interface_type" -> InterfaceTypeResults[p]
      [] op = "get_gateway_ip" -> GatewayIpResults[p]
      [] op = "get_machine_ip" -> MachineIpResults[p]

\* what the trace keeps of the response of the IP-info endpoint: inside
\* run_test() the report keeps what was made of "org"
IspSeen(e, inRun) == IF inRun THEN [kind |-> e.kind, ip |-> e.ip] ELSE e

\* the effects a call of op can have; run_test() passes no argument to a
\* probe, so there is_connected() runs with its default timeout
Effects(op, p, cache, dt, inRun) ==
    CASE op = "is_connected" ->
             {Effect(is_connected(cache, dt, e), e.connect # "ok", e) :
                 e \in {x \in ConnectEnv : inRun => x.timeout = DefaultTimeout}}
      [] op = "measure_network_latency" ->
             {Effect(measure_network_latency(cache, dt, e), ~e.reachable, e) :
                 e \in LatencyEnv}
      [] op = "measure_internet_ping" ->
             {Effect(measure_internet_ping(cache, dt, e), e.kind # "ok", e) : e \in PingEnv}
      [] op = "get_public_ip" ->
             {Effect(get_public_ip(cache, dt, e), e.kind = "transport_error", e) :
                 e \in PublicIpEnv}
      [] op = "get_isp_name" ->
             {Effect(get_isp_name(cache, dt, e), e.kind = "transport_error",
                     IspSeen(e, inRun)) : e \in IspEnv}
      [] OTHER ->
             {Effect(Outcome(r.ret, cache, dt, 0), r.blocked, LocalInput) :
                 r \in LocalResults(op, p)}

\* one probe call: the object, the socket module and the record of the call
ProbeCall(op, eff) ==
    /\ public_ip' = eff.cache
    /\ defaulttimeout' = eff.dt
    /\ last' = [op |-> op, env |-> eff.seen, before |-> public_ip, ret |-> eff.ret,
                gets |-> eff.gets]
    /\ returned_ip' =
           IF /\ op = "get_public_ip" /\ returned_ip = PyNone
              /\ eff.gets > 0 /\ eff.seen.kind = "ok"
           THEN eff.ret
           ELSE returned_ip

\* a probe called on its own
Call(op) ==
    /\ pc = "idle"
    /\ \E eff \in Effects(op, PLATFORM_NAME, public_ip, defaulttimeout, FALSE) :
           ProbeCall(op, eff)
    /\ report' = NoReport
    /\ runLog' = <<>>
    /\ runBlocked' = TRUE
    /\ constructed_at' = PyNone
    /\ UNCHANGED <<PLATFORM_NAME, pc, runArgs, inspected>>

IsConnected == Call("is_connected")
GetInterfaceType == Call("get_interface_type")
GetGatewayIp == Call("get_gateway_ip")
GetMachineIp == Call("get_machine_ip")
MeasureNetworkLatency == Call("measure_network_latency")
MeasureInternetPing == Call("measure_internet_ping")
GetPublicIp == Call("get_public_ip")
GetIspName == Call("get_isp_name")

\* run_test() is entered
RunTestCall ==
    /\ pc = "idle"
    /\ pc' = "run_test"
    /\ runArgs' = <<>>
    /\ runLog' = <<>>
    /\ runBlocked' = TRUE
    /\ report' = NoReport
    /\ constructed_at' = PyNone
    /\ UNCHANGED <<PLATFORM_NAME, public_ip, defaulttimeout, last, returned_ip, inspected>>

\* the next keyword argument of lines 419-427 is evaluated; an exception
\* leaves the try block for line 432
RunTestArg ==
    /\ pc = "run_test"
    /\ Len(runArgs) < Len(RunOrder)
    /\ LET op == RunOrder[Len(runArgs) + 1]
       IN  \E eff \in Effects(op, PLATFORM_NAME, public_ip, defaulttimeout, TRUE) :
               /\ ProbeCall(op, eff)
               /\ runLog' = Append(runLog, op)
               /\ runBlocked' = (runBlocked /\ eff.blocked)
               /\ IF last'.ret.kind = "raise"
                  THEN /\ pc' = "idle"
                       /\ report' = FailureReport(runArgs)
                       /\ constructed_at' \in {PyInt(t) : t \in Instants}
                       /\ runArgs' = <<>>
                  ELSE /\ pc' = pc
                       /\ report' = report
                       /\ constructed_at' = constructed_at
                       /\ runArgs' = Append(runArgs, last'.ret)
    /\ UNCHANGED <<PLATFORM_NAME, inspected>>

\* lines 428-430: the bandwidth arguments, the constructor and the return
RunTestReturn ==
    /\ pc = "run_test"
    /\ Len(runArgs) = Len(RunOrder)
    /\ pc' = "idle"
    /\ report' = SuccessReport(runArgs)
    /\ constructed_at' \in {PyInt(t) : t \in Instants}
    /\ runArgs' = <<>>
    /\ UNCHANGED <<PLATFORM_NAME, public_ip, defaulttimeout, runLog, runBlocked, last, inspected,
                   returned_ip>>

Init ==
    /\ PLATFORM_NAME \in Platforms
    /\ public_ip = PyNone
    /\ defaulttimeout = PyNone
    /\ pc = "idle"
    /\ runArgs = <<>>
    /\ runLog = <<>>
    /\ runBlocked = TRUE
    /\ report = NoReport
    /\ last = [op |-> "__init__", env |-> [kind |-> "none"], before |-> PyNone,
               ret |-> PyNone, gets |-> 0]
    /\ returned_ip = PyNone
    /\ inspected = NotDrawn
    /\ constructed_at = PyNone

Next ==
    \/ IsConnected
    \/ GetInterfaceType
    \/ GetGatewayIp
    \/ GetMachineIp
    \/ MeasureNetworkLatency
    \/ MeasureInternetPing
    \/ GetPublicIp
    \/ GetIspName
    \/ RunTestCall
    \/ RunTestArg
    \/ RunTestReturn

Spec == Init /\ [][Next]_vars

(***************************************************************************)
(* The local network inspector on its own (lines 108-185 and 254-317).     *)
(*                                                                         *)
(* get_interface_type() and get_gateway_ip() read the host and nothing of  *)
(* the object: here the host is drawn first and the method is applied to   *)
(* it, so that the call is kept together with everything it read.          *)
(***************************************************************************)
InspectedHosts(p) ==
    [op : {"get_interface_type"}, env : IfaceEnv(p)]
        \cup [op : {"get_gateway_ip"}, env : GatewayEnv(p)]

InitInspector ==
    /\ PLATFORM_NAME \in Platforms
    /\ inspected \in InspectedHosts(PLATFORM_NAME)
    /\ public_ip = PyNone
    /\ defaulttimeout = PyNone
    /\ pc = "idle"
    /\ runArgs = <<>>
    /\ runLog = <<>>
    /\ runBlocked = TRUE
    /\ report = NoReport
    /\ last = [op |-> "__init__", env |-> [kind |-> "none"], before |-> PyNone,
               ret |-> PyNone, gets |-> 0]
    /\ returned_ip = PyNone
    /\ constructed_at = PyNone

\* a method of the inspector called on the host drawn
Inspect(op, ret) ==
    /\ ProbeCall(op, Effect(Outcome(ret, public_ip, defaulttimeout, 0), TRUE,
                            inspected.env))
    /\ report' = NoReport
    /\ runLog' = <<>>
    /\ runBlocked' = TRUE
    /\ constructed_at' = PyNone
    /\ UNCHANGED <<PLATFORM_NAME, pc, runArgs, inspected>>

InspectInterfaceType ==
    /\ pc = "idle"
    /\ inspected.op = "get_interface_type"
    /\ Inspect("get_interface_type", get_interface_type(PLATFORM_NAME, inspected.env))

InspectGatewayIp ==
    /\ pc = "idle"
    /\ inspected.op = "get_gateway_ip"
    /\ Inspect("get_gateway_ip", get_gateway_ip(PLATFORM_NAME, inspected.env))

NextInspector ==
    \/ InspectInterfaceType
    \/ InspectGatewayIp

SpecInspector == InitInspector /\ [][NextInspector]_vars

(***************************************************************************)
(* Claims.                                                                 *)
(***************************************************************************)
Returned == pc = "idle" /\ report # NoReport

\* C1: run_test() never raises: a run that has ended has returned a report;
\* when a probe it invoked raised, the report has success = False; and every
\* report with success = False holds the default of every other field.
C1_FailedReportIsDefault ==
    /\ (pc = "idle" /\ runLog # <<>>) => report # NoReport
    /\ (Returned /\ last.ret.kind = "raise") => report.success = PyBool(FALSE)
    /\ (Returned /\ report.success = PyBool(FALSE)) =>
           /\ report.internet_connected = PyBool(FALSE)
           /\ \A f \in {"interface_type", "gateway_ip", "machine_ip", "network_latency",
                        "internet_ping", "public_ip", "isp", "bandwidth_down_mbps",
                        "bandwidth_up_mbps"} : report[f] = PyNone
           /\ report.timestamp = PyInt(ImportTime)

\* C1 witness: get_gateway_ip raised inside run_test() after two probes had
\* returned, and the run returned the failed report.
C1_Witness ==
    /\ Returned
    /\ runLog = SubSeq(RunOrder, 1, 3)
    /\ last.op = "get_gateway_ip" /\ last.ret.kind = "raise"
    /\ report.success = PyBool(FALSE)

\* C2: a run_test() in which every outbound connection and request failed
\* returns success = True, internet_connected = False, internet_ping = -1,
\* network_latency = +infinity, public_ip = "n/a" and isp = "n/a".
C2_BlockedRunSucceeds ==
    (Returned /\ runBlocked) =>
        /\ report.success = PyBool(TRUE)
        /\ report.internet_connected = PyBool(FALSE)
        /\ report.internet_ping = PyInt(-1)
        /\ report.network_latency = PyInf
        /\ report.public_ip = NA
        /\ report.isp = NA

\* C3: every run_test() that has returned invoked the eight probes once each,
\* in the order connectivity, interface type, gateway, machine IP, latency,
\* ping, public IP, ISP.
C3_AllProbesInOrder == Returned => runLog = RunOrder

\* C4: once get_public_ip() has fetched and returned a body, every later
\* get_public_ip() returns the same string and issues no GET.
C4_ReturnedIpIsKept ==
    [][(returned_ip # PyNone /\ last'.op = "get_public_ip" /\ last' # last) =>
           (last'.ret = returned_ip /\ last'.gets = 0)]_vars

IspObjectSeen ==
    last.op = "get_isp_name" /\ last.env.kind = "object" /\ "org" \in DOMAIN last.env

\* C6: for a successful response whose "org" is "<ASN> <Name>" (an ASN token
\* without blank, one blank, the name) get_isp_name() returns <Name>; for
\* "AS36947 Telecom Algeria" it returns "Telecom Algeria"; for a response
\* without "org" it returns "n/a".
C6_OrgNameWithoutAsn ==
    IspObjectSeen =>
        /\ last.env.org = PyNone => last.ret = NA
        /\ last.env.org = PyStr(ScenarioText.ScenarioOrg) => last.ret = PyStr(ScenarioText.TelecomAlgeria)
        /\ last.env.org.kind = "str" =>
               \A k \in 2..Len(last.env.org.s) :
                   (/\ last.env.org.s[k] = " "
                    /\ \A j \in 1..(k - 1) : last.env.org.s[j] # " ") =>
                       last.ret = PyStr(SubSeq(last.env.org.s, k + 1, Len(last.env.org.s)))

\* C6 witness: the scenario of the specification.
C6_Witness ==
    /\ IspObjectSeen
    /\ last.env.org = PyStr(ScenarioText.ScenarioOrg)
    /\ last.ret = PyStr(ScenarioText.TelecomAlgeria)

\* C7: once the cache holds a value, no call changes it.
C7_CacheWrittenOnce == [][public_ip # PyNone => public_ip' = public_ip]_vars

\* C8: no probe call raises.
C8_NoProbeRaises == last.ret.kind # "raise"

\* C9: measure_network_latency() returns +infinity when the network cannot be
\* reached, and a number >= 0 otherwise.
C9_LatencyInfiniteWhenOffline ==
    last.op = "measure_network_latency" =>
        IF last.env.reachable THEN last.ret.kind = "int" /\ last.ret.n >= 0
        ELSE last.ret = PyInf

\* C10: measure_internet_ping() returns -1 exactly when the handshake times
\* out or fails, and otherwise the whole milliseconds of its duration, an
\* integer >= 0.
C10_PingSentinel ==
    last.op = "measure_internet_ping" =>
        /\ last.ret.kind = "int"
        /\ last.env.kind # "ok" <=> last.ret = PyInt(-1)
        /\ last.env.kind = "ok" =>
               /\ last.ret.n >= 0
               /\ last.ret.n * TicksPerMs <= last.env.ticks
               /\ last.env.ticks < (last.ret.n + 1) * TicksPerMs

\* C10 witness: the handshake timed out and the call returned -1.
C10_Witness ==
    /\ last.op = "measure_internet_ping"
    /\ last.env.kind = "timeout"
    /\ last.ret = PyInt(-1)

RECURSIVE DecToInt(_)
DecToInt(s) ==
    IF s = <<>> THEN 0
    ELSE DecToInt(SubSeq(s, 1, Len(s) - 1)) * 10 + HexVal(s[Len(s)])

\* one to three decimal digits, with a value of at most 255
IsOctet(s) ==
    /\ Len(s) \in 1..3
    /\ \A i \in 1..Len(s) : \E d \in 1..10 : s[i] = HexDigits[d]
    /\ DecToInt(s) <= 255

\* the format _validate_ip_address of the test suite accepts
IsDottedQuad(s) ==
    LET parts == Split(s, ".")
    IN  Len(parts) = 4 /\ \A i \in 1..4 : IsOctet(parts[i])

\* C12: every string get_machine_ip(), get_gateway_ip() or get_public_ip()
\* returns is "n/a" or four decimal integers of 0..255 separated by dots.
C12_ReturnedIpIsDottedQuad ==
    (/\ last.op \in {"get_machine_ip", "get_gateway_ip", "get_public_ip"}
     /\ last.ret.kind = "str")
        => (last.ret = NA \/ IsDottedQuad(last.ret.s))

\* C13: a call of is_connected(), whether it returns True or False, leaves
\* the public-IP cache and the default timeout of the socket module as they
\* were before the call.
C13_IsConnectedLeavesNoTrace ==
    [][last'.op = "is_connected" =>
           (public_ip' = public_ip /\ defaulttimeout' = defaulttimeout)]_vars

\* C14: the timestamp of the report run_test() returns is the instant at
\* which the report was constructed, so reports constructed at different
\* instants differ in it and none is older than its own call.
C14_TimestampIsConstructionTime ==
    Returned => report.timestamp = constructed_at

\* the default route of the kernel routing table, if it holds one with a
\* gateway: the third field of the first such line, else the empty text
RECURSIVE DefaultRouteGateway(_)
DefaultRouteGateway(lines) ==
    IF lines = <<>> THEN <<>>
    ELSE IF /\ Len(Head(lines)) > 2
            /\ Head(lines)[2] = GatewayText.H_zero
            /\ Head(lines)[3] # GatewayText.H_zero
    THEN Head(lines)[3]
    ELSE DefaultRouteGateway(Tail(lines))

\* strategy (a) succeeds: the table can be read and its default route holds
\* a gateway that can be parsed
RouteTableSucceeds(route) ==
    /\ route.kind = "ok"
    /\ IsHex(DefaultRouteGateway(route.lines))

\* C15: get_gateway_ip() tries the kernel routing table, then the routing
\* command, then the heuristic on the local address. No failure of a stage
\* ends the call: a stage that fails or finds nothing hands over to the next,
\* the result is that of the first stage that succeeds, and "n/a" is
\* returned exactly when all of them fail.
C15_GatewayStrategiesInOrder ==
    last.op = "get_gateway_ip" =>
        LET e == last.env
            a == RouteTableSucceeds(e.route)
            b == CommandStage(PLATFORM_NAME, e.cmd)
            c == HeuristicStage(e.sock)
        IN  /\ last.ret.kind = "str"
            /\ a => last.ret = PyStr(InetNtoaLE(HexToInt(DefaultRouteGateway(e.route.lines))))
            /\ (~a /\ b.kind = "return") => last.ret = b.val
            /\ (~a /\ b.kind # "return") => last.ret = c.val
            /\ last.ret = NA <=> (~a /\ b.kind # "return" /\ e.sock.kind # "ok")
====
